---- MODULE Spec2Model ----
(***************************************************************************)
(* Model of task_programming.py: a LibraryService that coordinates a       *)
(* LibraryInventory, a BasicLoanService (the loan ledger) and a            *)
(* NotificationService (EmailNotification or SMSNotification).             *)
(*                                                                         *)
(* Book and Member define neither __eq__ nor __hash__, so every            *)
(* comparison Python makes (`in`, list.remove, dict lookup) is by object   *)
(* identity.  Books and members are therefore object references here, and  *)
(* their fields are looked up through BookTitle, BookAuthor, ...           *)
(*                                                                         *)
(* One LibraryService is built per notifier variant, each with its own     *)
(* inventory and ledger, and every call is issued to all of them, so that  *)
(* the variants can be compared step by step.                              *)
(*                                                                         *)
(* Spec runs whole service calls, StepSpec runs a service call one         *)
(* delegated call at a time, LedgerSpec calls BasicLoanService directly,   *)
(* and WellBehavedSpec is Spec for clients that add each book once and     *)
(* return only what the ledger records.                                    *)
(***************************************************************************)
EXTENDS Integers, Sequences, FiniteSets, TLC

VARIABLES inventory, loans, out, raised, last, prev, nops, added, pc, trace

vars == <<inventory, loans, out, raised, last, prev, nops, added, pc, trace>>

\* Bounds of the model.
MaxOps == 5
MaxLedgerCalls == 4
NumBooks == 3
NumMembers == 2

\* Book objects.  Books 1 and 3 are two separately created records with the
\* same title, author and year.
Books == 1..NumBooks
BookTitle(b) == IF b % 2 = 1 THEN "Clean Code" ELSE "The Pragmatic Programmer"
BookAuthor(b) == IF b % 2 = 1 THEN "Robert C. Martin" ELSE "Andrew Hunt"
BookYear(b) == IF b % 2 = 1 THEN 2008 ELSE 1999
SameFields(a, b) ==
  /\ BookTitle(a) = BookTitle(b)
  /\ BookAuthor(a) = BookAuthor(b)
  /\ BookYear(a) = BookYear(b)

\* Member objects.
Members == 1..NumMembers
MemberName(m) == IF m % 2 = 1 THEN "Alice" ELSE "Bob"
MemberId(m) == IF m % 2 = 1 THEN "M001" ELSE "M002"

\* The concrete NotificationService classes.
Variants == {"Email", "SMS"}

----------------------------------------------------------------------------
\* Python list primitives, on object references.

\* x in seq
Contains(seq, x) == \E i \in 1..Len(seq) : seq[i] = x

\* seq.count(x)
Count(seq, x) == Cardinality({i \in 1..Len(seq) : seq[i] = x})

\* index of the first occurrence of x in seq (x must occur)
FirstIndex(seq, x) == CHOOSE i \in 1..Len(seq) :
                        /\ seq[i] = x
                        /\ \A j \in 1..(i - 1) : seq[j] # x

ListRemoveAll(seq, x) == SelectSeq(seq, LAMBDA y : y # x)

\* seq.remove(x) when x occurs: drops the first occurrence only
ListRemove(seq, x) ==
  LET i == FirstIndex(seq, x)
  IN  SubSeq(seq, 1, i - 1) \o SubSeq(seq, i + 1, Len(seq))

----------------------------------------------------------------------------
\* NotificationService

EmailNotification_notify(member, message) ==
  << <<"Email to", MemberName(member)>> \o message >>

SMSNotification_notify_by_id(member, message) ==
  << <<"SMS to", MemberId(member)>> \o message >>

SMSNotification_notify(member, message) ==
  << <<"SMS to", MemberName(member)>> \o message >>

notify(variant, member, message) ==
  IF variant = "Email" THEN EmailNotification_notify(member, message)
                       ELSE SMSNotification_notify(member, message)

----------------------------------------------------------------------------
\* LibraryInventory

add_book_dedup(books, book) ==
  IF Contains(books, book) THEN books ELSE Append(books, book)

add_book(books, book) == Append(books, book)

\* list.remove raises ValueError when the book is absent
remove_book(books, book) ==
  IF Contains(books, book)
    THEN [books |-> ListRemove(books, book), raised |-> FALSE]
    ELSE [books |-> books, raised |-> TRUE]

list_books_titles(books) ==
  [i \in 1..Len(books) |-> <<BookTitle(books[i])>>]

list_books(books) ==
  [i \in 1..Len(books) |-> <<BookTitle(books[i]), "by", BookAuthor(books[i])>>]

----------------------------------------------------------------------------
\* BasicLoanService: loans is a dict from member to list of books

loan_book_no_duplicates(ln, member, book) ==
  LET l1 == IF member \in DOMAIN ln THEN ln ELSE (member :> <<>>) @@ ln
      held == \E m \in DOMAIN ln : Contains(ln[m], book)
  IN  [loans |-> IF held THEN l1 ELSE [l1 EXCEPT ![member] = Append(@, book)],
       out   |-> << <<"print", BookTitle(book), "loaned to", MemberName(member)>> >>]

loan_book(ln, member, book) ==
  LET l1 == IF member \in DOMAIN ln THEN ln ELSE (member :> <<>>) @@ ln
  IN  [loans |-> [l1 EXCEPT ![member] = Append(@, book)],
       out   |-> << <<"print", BookTitle(book), "loaned to", MemberName(member)>> >>]

return_book(ln, member, book) ==
  IF member \in DOMAIN ln /\ Contains(ln[member], book)
    THEN [loans |-> [ln EXCEPT ![member] = ListRemove(@, book)],
          out   |-> << <<"print", BookTitle(book), "returned by", MemberName(member)>> >>]
    ELSE [loans |-> ln,
          out   |-> << <<"print", MemberName(member), "does not have", BookTitle(book)>> >>]

----------------------------------------------------------------------------
\* LibraryService.  Each method takes the state of the injected inventory and
\* ledger and yields their new state, the lines emitted and whether an
\* exception escaped.

add_book_to_inventory(variant, inv, ln, book) ==
  [inventory |-> add_book(inv, book),
   loans     |-> ln,
   out       |-> << <<"print", BookTitle(book), "added to the library.">> >>,
   raised    |-> FALSE]

LoanMessage(book) == <<"You have loaned", BookTitle(book)>>
ReturnMessage(book) == <<"Thank you for returning", BookTitle(book)>>
UnavailableLine(book) == <<"print", BookTitle(book), "is not available in the inventory.">>

LoanSteps_keep_in_inventory(variant, inv, ln, member, book) ==
  LET l == loan_book(ln, member, book)
  IN  [inventory |-> inv, loans |-> l.loans,
       out |-> l.out \o notify(variant, member, LoanMessage(book)),
       raised |-> FALSE]

\* the body of the `if` branch: ledger, then inventory, then notifier
LoanSteps(variant, inv, ln, member, book) ==
  LET l == loan_book(ln, member, book)
      r == remove_book(inv, book)
  IN  IF r.raised
        THEN [inventory |-> inv, loans |-> l.loans, out |-> l.out, raised |-> TRUE]
        ELSE [inventory |-> r.books, loans |-> l.loans,
              out |-> l.out \o notify(variant, member, LoanMessage(book)),
              raised |-> FALSE]

loan_book_to_member_unchecked(variant, inv, ln, member, book) ==
  LoanSteps(variant, inv, ln, member, book)

loan_book_to_member_ledger_first(variant, inv, ln, member, book) ==
  IF Contains(inv, book)
    THEN LoanSteps(variant, inv, ln, member, book)
    ELSE [inventory |-> inv, loans |-> loan_book(ln, member, book).loans,
          out |-> <<UnavailableLine(book)>>, raised |-> FALSE]

loan_book_to_member(variant, inv, ln, member, book) ==
  IF Contains(inv, book)
    THEN LoanSteps(variant, inv, ln, member, book)
    ELSE [inventory |-> inv, loans |-> ln,
          out |-> <<UnavailableLine(book)>>, raised |-> FALSE]

return_book_from_member_guarded(variant, inv, ln, member, book) ==
  LET l == return_book(ln, member, book)
  IN  IF l.loans = ln
        THEN [inventory |-> inv, loans |-> ln, out |-> l.out, raised |-> FALSE]
        ELSE [inventory |-> add_book(inv, book), loans |-> l.loans,
              out |-> l.out \o notify(variant, member, ReturnMessage(book)),
              raised |-> FALSE]

return_book_from_member(variant, inv, ln, member, book) ==
  LET l == return_book(ln, member, book)
  IN  [inventory |-> add_book(inv, book),
       loans     |-> l.loans,
       out       |-> l.out \o notify(variant, member, ReturnMessage(book)),
       raised    |-> FALSE]

----------------------------------------------------------------------------
\* The state machine: the calls a client makes on the services.

NoCall == [op |-> "none", member |-> 0, book |-> 0]

\* last is the latest call; prev is the call before it when that one had the
\* same member and book, and NoCall otherwise.
Before(call) ==
  IF last.member = call.member /\ last.book = call.book THEN last ELSE NoCall

Init ==
  /\ inventory = [v \in Variants |-> <<>>]
  /\ loans = [v \in Variants |-> <<>>]
  /\ out = [v \in Variants |-> <<>>]
  /\ raised = [v \in Variants |-> FALSE]
  /\ last = NoCall
  /\ prev = NoCall
  /\ nops = 0
  /\ added = {}
  /\ pc = [v \in Variants |-> <<>>]
  /\ trace = [v \in Variants |-> <<>>]

\* a call is made only while no exception has ended the program
Running == /\ nops < MaxOps
           /\ \A v \in Variants : ~raised[v]
           /\ \A v \in Variants : pc[v] = <<>>

Apply(r, call) ==
  /\ inventory' = [v \in Variants |-> r[v].inventory]
  /\ loans' = [v \in Variants |-> r[v].loans]
  /\ out' = [v \in Variants |-> r[v].out]
  /\ raised' = [v \in Variants |-> r[v].raised]
  /\ prev' = Before(call)
  /\ last' = call
  /\ nops' = nops + 1
  /\ trace' = [v \in Variants |-> <<>>]
  /\ UNCHANGED pc

AddBookToInventory(b) ==
  /\ Running
  /\ Apply([v \in Variants |-> add_book_to_inventory(v, inventory[v], loans[v], b)],
           [op |-> "add", member |-> 0, book |-> b])
  /\ UNCHANGED added

LoanBookToMember(m, b) ==
  /\ Running
  /\ Apply([v \in Variants |-> loan_book_to_member(v, inventory[v], loans[v], m, b)],
           [op |-> "loan", member |-> m, book |-> b])
  /\ UNCHANGED added

ReturnBookFromMember(m, b) ==
  /\ Running
  /\ Apply([v \in Variants |-> return_book_from_member(v, inventory[v], loans[v], m, b)],
           [op |-> "return", member |-> m, book |-> b])
  /\ UNCHANGED added

\* the client lists the inventory
ListBooks ==
  /\ Running
  /\ Apply([v \in Variants |->
             [inventory |-> inventory[v], loans |-> loans[v],
              out |-> list_books(inventory[v]), raised |-> FALSE]],
           [op |-> "list", member |-> 0, book |-> 0])
  /\ UNCHANGED added

Next ==
  \/ \E b \in Books : AddBookToInventory(b)
  \/ \E m \in Members, b \in Books : LoanBookToMember(m, b)
  \/ \E m \in Members, b \in Books : ReturnBookFromMember(m, b)
  \/ ListBooks

Spec == Init /\ [][Next]_vars

----------------------------------------------------------------------------
\* The same service, one delegated call at a time.  pc[v] is the list of
\* delegations the running method has still to make, trace[v] the list of
\* those it has made since it was entered.

LoanBody_inventory_first == <<"remove_book", "loan_book", "notify">>

\* the statements of the `if` branch of loan_book_to_member
LoanBody == <<"loan_book", "remove_book", "notify">>

\* the statements of return_book_from_member
ReturnBody == <<"return_book", "add_book", "notify">>

\* one delegated call made by the service on behalf of `call`
Delegation(variant, stmt, inv, ln, lines, call) ==
  LET member == call.member
      book == call.book
      same == [inventory |-> inv, loans |-> ln, out |-> lines, raised |-> FALSE]
  IN  CASE stmt = "loan_book" ->
             LET l == loan_book(ln, member, book)
             IN  [same EXCEPT !.loans = l.loans, !.out = lines \o l.out]
        [] stmt = "return_book" ->
             LET l == return_book(ln, member, book)
             IN  [same EXCEPT !.loans = l.loans, !.out = lines \o l.out]
        [] stmt = "remove_book" ->
             LET r == remove_book(inv, book)
             IN  [same EXCEPT !.inventory = r.books, !.raised = r.raised]
        [] stmt = "add_book" ->
             [same EXCEPT !.inventory = add_book(inv, book)]
        [] stmt = "notify" ->
             [same EXCEPT !.out = lines \o notify(variant, member,
                                     IF call.op = "loan" THEN LoanMessage(book)
                                                         ELSE ReturnMessage(book))]

\* loan_book_to_member is entered: the availability check
BeginLoan(m, b) ==
  /\ Running
  /\ pc' = [v \in Variants |-> IF Contains(inventory[v], b) THEN LoanBody ELSE <<>>]
  /\ out' = [v \in Variants |-> IF Contains(inventory[v], b) THEN <<>>
                                                             ELSE <<UnavailableLine(b)>>]
  /\ trace' = [v \in Variants |-> <<>>]
  /\ prev' = Before([op |-> "loan", member |-> m, book |-> b])
  /\ last' = [op |-> "loan", member |-> m, book |-> b]
  /\ nops' = nops + 1
  /\ UNCHANGED <<inventory, loans, raised, added>>

\* return_book_from_member is entered
BeginReturn(m, b) ==
  /\ Running
  /\ pc' = [v \in Variants |-> ReturnBody]
  /\ out' = [v \in Variants |-> <<>>]
  /\ trace' = [v \in Variants |-> <<>>]
  /\ prev' = Before([op |-> "return", member |-> m, book |-> b])
  /\ last' = [op |-> "return", member |-> m, book |-> b]
  /\ nops' = nops + 1
  /\ UNCHANGED <<inventory, loans, raised, added>>

\* the running method makes its next delegated call
Delegate ==
  /\ \E v \in Variants : pc[v] # <<>>
  /\ LET r == [v \in Variants |->
                IF pc[v] = <<>>
                  THEN [inventory |-> inventory[v], loans |-> loans[v],
                        out |-> out[v], raised |-> raised[v]]
                  ELSE Delegation(v, Head(pc[v]), inventory[v], loans[v], out[v], last)]
     IN  /\ inventory' = [v \in Variants |-> r[v].inventory]
         /\ loans' = [v \in Variants |-> r[v].loans]
         /\ out' = [v \in Variants |-> r[v].out]
         /\ raised' = [v \in Variants |-> r[v].raised]
         /\ pc' = [v \in Variants |->
                     IF pc[v] = <<>> \/ r[v].raised THEN <<>> ELSE Tail(pc[v])]
         /\ trace' = [v \in Variants |->
                        IF pc[v] = <<>> THEN trace[v] ELSE Append(trace[v], Head(pc[v]))]
  /\ UNCHANGED <<last, prev, nops, added>>

StepNext ==
  \/ \E b \in Books : AddBookToInventory(b)
  \/ \E m \in Members, b \in Books : BeginLoan(m, b)
  \/ \E m \in Members, b \in Books : BeginReturn(m, b)
  \/ Delegate

StepSpec == Init /\ [][StepNext]_vars

----------------------------------------------------------------------------
\* The ledger on its own: a client calls BasicLoanService directly.

LedgerCall(r, call) ==
  /\ nops < MaxLedgerCalls
  /\ loans' = [v \in Variants |-> r[v].loans]
  /\ out' = [v \in Variants |-> r[v].out]
  /\ prev' = Before(call)
  /\ last' = call
  /\ nops' = nops + 1
  /\ UNCHANGED <<inventory, raised, added, pc, trace>>

LedgerLoanBook(m, b) ==
  LedgerCall([v \in Variants |-> loan_book(loans[v], m, b)],
             [op |-> "loan_book", member |-> m, book |-> b])

LedgerReturnBook(m, b) ==
  LedgerCall([v \in Variants |-> return_book(loans[v], m, b)],
             [op |-> "return_book", member |-> m, book |-> b])

LedgerNext ==
  \/ \E m \in Members, b \in Books : LedgerLoanBook(m, b)
  \/ \E m \in Members, b \in Books : LedgerReturnBook(m, b)

LedgerSpec == Init /\ [][LedgerNext]_vars

----------------------------------------------------------------------------
\* Well-behaved clients: a book is added at most once, and a member returns
\* only a book the ledger records for them.

\* add_book_to_inventory of a book not added before
AddNewBook(b) ==
  /\ b \notin added
  /\ Running
  /\ Apply([v \in Variants |-> add_book_to_inventory(v, inventory[v], loans[v], b)],
           [op |-> "add", member |-> 0, book |-> b])
  /\ added' = added \cup {b}

WellBehavedNext ==
  \/ \E b \in Books : AddNewBook(b)
  \/ \E m \in Members, b \in Books : LoanBookToMember(m, b)
  \/ \E m \in Members, b \in Books :
        /\ \A v \in Variants : m \in DOMAIN loans[v] /\ Contains(loans[v][m], b)
        /\ ReturnBookFromMember(m, b)

WellBehavedSpec == Init /\ [][WellBehavedNext]_vars

----------------------------------------------------------------------------
\* Vocabulary of the properties.

\* some member's loan sequence holds b
OnLoan(v, b) == \E m \in DOMAIN loans[v] : Contains(loans[v][m], b)

\* m's loan sequence holds b
Holds(v, m, b) == m \in DOMAIN loans[v] /\ Contains(loans[v][m], b)

IsNotification(line) == line[1] \in {"Email to", "SMS to"}

Notifications(lines) == SelectSeq(lines, IsNotification)

TypeOK ==
  /\ \A v \in Variants :
       /\ inventory[v] \in Seq(Books)
       /\ DOMAIN loans[v] \subseteq Members
       /\ \A m \in DOMAIN loans[v] : loans[v][m] \in Seq(Books)
       /\ raised[v] \in BOOLEAN
  /\ nops \in 0..MaxOps

----------------------------------------------------------------------------
\* C1: a book that is in the inventory's available sequence is not recorded
\* in any member's loan sequence of the ledger.
InventoryDisjointFromLedger ==
  \A v \in Variants, b \in Books :
    Contains(inventory[v], b) => ~OnLoan(v, b)

\* C2: a book is in at most one member's loan sequence.
AtMostOneHolder ==
  \A v \in Variants, b \in Books, m1 \in Members, m2 \in Members :
    Holds(v, m1, b) /\ Holds(v, m2, b) => m1 = m2

\* C3: when loan_book_to_member(m, b) finds b in the inventory, then right
\* after the call b is absent from the inventory and present in m's loan
\* sequence.
LoanMovesBookOut ==
  [][\A v \in Variants :
       last'.op = "loan" /\ Contains(inventory[v], last'.book)
         => /\ (~Contains(inventory[v], last.book))'
            /\ (Holds(v, last.member, last.book))']_vars

\* C4: loan_book_to_member(m, b) called while b is not in the inventory only
\* reports unavailability: inventory and ledger (its keys included) are
\* unchanged and the notifier is not invoked.
UnavailableLoanMutatesNothing ==
  [][\A v \in Variants :
       last'.op = "loan" /\ ~Contains(inventory[v], last'.book)
         => /\ inventory'[v] = inventory[v]
            /\ loans'[v] = loans[v]
            /\ DOMAIN loans'[v] = DOMAIN loans[v]
            /\ out'[v] = <<UnavailableLine(last'.book)>>
            /\ Notifications(out'[v]) = <<>>
            /\ ~raised'[v]]_vars

\* C4 witness: an unavailable book was requested while the inventory held
\* other books and the ledger had entries.
UnavailableLoanReported ==
  \E v \in Variants :
    /\ last.op = "loan"
    /\ ~Contains(inventory[v], last.book)
    /\ out[v] = <<UnavailableLine(last.book)>>
    /\ inventory[v] # <<>>
    /\ DOMAIN loans[v] # {}

\* C5: after return_book_from_member(m, b) the book b is in the inventory,
\* whether or not m held it.
ReturnRestocks ==
  last.op = "return" =>
    \A v \in Variants : Contains(inventory[v], last.book)

\* C5 witness: the ledger reported no-such-loan and the book was restocked.
ReturnOfUnloanedBookRestocked ==
  \E v \in Variants :
    /\ last.op = "return"
    /\ out[v][1] = <<"print", MemberName(last.member), "does not have", BookTitle(last.book)>>
    /\ Contains(inventory[v], last.book)

\* C6: every return_book_from_member(m, b) adds exactly one occurrence of b to
\* the inventory, whatever the ledger holds; so after the same return made
\* twice in a row b occurs at least twice.
ReturnAddsOneCopy ==
  /\ [][\A v \in Variants :
          last'.op = "return"
            => Count(inventory'[v], last'.book) = Count(inventory[v], last'.book) + 1]_vars
  /\ [](\A v \in Variants :
          last.op = "return" /\ prev = last
            => Count(inventory[v], last.book) >= 2)

\* C6 witness: the same return was made twice in a row and the book is in
\* the inventory exactly twice.
ReturnedTwiceInARow ==
  \E v \in Variants :
    /\ last.op = "return"
    /\ prev = last
    /\ Count(inventory[v], last.book) = 2

\* C7: a book added by add_book_to_inventory is in the inventory exactly once,
\* and stays exactly once until a loan removes it.
AddedBookListedOnce ==
  [][\A v \in Variants :
       /\ last'.op = "add" => Count(inventory'[v], last'.book) = 1
       /\ \A b \in Books :
            /\ Count(inventory[v], b) = 1
            /\ ~(last'.op = "loan" /\ last'.book = b)
            => Count(inventory'[v], b) = 1]_vars

\* C8: books are matched by value: loaning a Book record whose title, author
\* and year equal those of a record in the inventory succeeds, moving a book
\* to the member and notifying them.
LoanMatchesByValue ==
  [][\A v \in Variants :
       /\ last'.op = "loan"
       /\ \E i \in 1..Len(inventory[v]) : SameFields(inventory[v][i], last'.book)
       => /\ Len(inventory'[v]) = Len(inventory[v]) - 1
          /\ (Holds(v, last.member, last.book))'
          /\ Notifications(out'[v]) # <<>>]_vars

\* C9: no sequence of service calls makes Inventory.remove_book raise: no
\* call aborts.
NoRemovalOfMissingBook ==
  \A v \in Variants : ~raised[v]

\* C9 witness: a loan went through remove_book and on to the notifier.
LoanCompleted ==
  \E v \in Variants :
    /\ last.op = "loan"
    /\ Holds(v, last.member, last.book)
    /\ Notifications(out[v]) # <<>>
    /\ ~raised[v]

\* C10: the service built with EmailNotification and the one built with
\* SMSNotification go through the same inventory and ledger states and emit,
\* at each call, the same lines; a notification differs in its channel label
\* only.
SameBody(e, s) ==
  IF IsNotification(e) \/ IsNotification(s)
    THEN /\ e[1] = "Email to"
         /\ s[1] = "SMS to"
         /\ Tail(e) = Tail(s)
    ELSE e = s

NotifierSubstitutable ==
  /\ inventory["Email"] = inventory["SMS"]
  /\ loans["Email"] = loans["SMS"]
  /\ raised["Email"] = raised["SMS"]
  /\ Len(out["Email"]) = Len(out["SMS"])
  /\ \A i \in 1..Len(out["Email"]) : SameBody(out["Email"][i], out["SMS"][i])

\* C10 witness: both services have just notified a member of a loan.
BothVariantsNotified ==
  /\ last.op = "loan"
  /\ Notifications(out["Email"]) =
       << <<"Email to", MemberName(last.member)>> \o LoanMessage(last.book) >>
  /\ Notifications(out["SMS"]) =
       << <<"SMS to", MemberName(last.member)>> \o LoanMessage(last.book) >>

\* C11: the delegated calls of a service method are always made in the same
\* order and never undone: a successful loan calls Ledger.loan_book, then
\* Inventory.remove_book, then Notifier.notify; a return calls
\* Ledger.return_book, then Inventory.add_book, then Notifier.notify.  So
\* between the first two calls of a loan the book is both in the inventory and
\* in the member's loan sequence.
IsPrefix(s, t) == Len(s) <= Len(t) /\ SubSeq(t, 1, Len(s)) = s

DelegationOrder ==
  \A v \in Variants :
    /\ last.op = "loan" =>
         /\ IsPrefix(trace[v], <<"loan_book", "remove_book", "notify">>)
         /\ pc[v] = <<>> /\ ~raised[v] => Len(trace[v]) \in {0, 3}
         /\ Len(trace[v]) >= 1 => Holds(v, last.member, last.book)
         /\ Len(trace[v]) = 1 => Contains(inventory[v], last.book)
    /\ last.op = "return" =>
         /\ IsPrefix(trace[v], <<"return_book", "add_book", "notify">>)
         /\ pc[v] = <<>> => Len(trace[v]) = 3
         /\ Len(trace[v]) >= 2 => Contains(inventory[v], last.book)
    /\ last.op \in {"loan", "return"} =>
         (Notifications(out[v]) # <<>> <=> Len(trace[v]) = 3)

\* C11 witness: a loan has written the ledger and not yet the inventory, and
\* the book is in both.
LoanHalfDone ==
  \E v \in Variants :
    /\ last.op = "loan"
    /\ trace[v] = <<"loan_book">>
    /\ pc[v] = <<"remove_book", "notify">>
    /\ Contains(inventory[v], last.book)
    /\ Holds(v, last.member, last.book)

\* C12: a successful loan_book_to_member(m, b) invokes the notifier exactly
\* once, addressed to m; every return_book_from_member(m, b) invokes it
\* exactly once, addressed to m, also when the ledger reports no such loan;
\* a loan of an unavailable book and add_book_to_inventory invoke it never.
NotificationCounts ==
  [][\A v \in Variants :
       LET sent == Notifications(out'[v])
       IN  /\ last'.op = "loan" /\ Contains(inventory[v], last'.book)
                => /\ Len(sent) = 1
                   /\ sent[1][2] = MemberName(last'.member)
                   /\ SubSeq(sent[1], 3, Len(sent[1])) = LoanMessage(last'.book)
           /\ last'.op = "return"
                => /\ Len(sent) = 1
                   /\ sent[1][2] = MemberName(last'.member)
                   /\ SubSeq(sent[1], 3, Len(sent[1])) = ReturnMessage(last'.book)
           /\ last'.op = "loan" /\ ~Contains(inventory[v], last'.book)
                => Len(sent) = 0
           /\ last'.op = "add" => Len(sent) = 0]_vars

\* C12 witness: a return the ledger reported as no such loan was followed by
\* one notification to the member.
NoSuchLoanStillNotified ==
  \E v \in Variants :
    /\ last.op = "return"
    /\ out[v][1] = <<"print", MemberName(last.member), "does not have", BookTitle(last.book)>>
    /\ Len(Notifications(out[v])) = 1
    /\ Notifications(out[v])[1][2] = MemberName(last.member)

\* C13: Ledger return_book(m, b): when m has an entry that holds b, exactly
\* the first occurrence of b leaves m's sequence, the rest of it keeps its
\* order and every other member's sequence is unchanged; otherwise a
\* no-such-loan line is reported and the ledger is unchanged.  No error is
\* raised.
WithoutIndex(seq, i) ==
  [k \in 1..(Len(seq) - 1) |-> IF k < i THEN seq[k] ELSE seq[k + 1]]

LedgerReturnContract ==
  [][\A v \in Variants :
       last'.op = "return_book" =>
         LET m == last'.member
             b == last'.book
             old == loans[v]
             new == loans'[v]
         IN  /\ ~raised'[v]
             /\ IF m \in DOMAIN old /\ Contains(old[m], b)
                  THEN /\ DOMAIN new = DOMAIN old
                       /\ \A o \in DOMAIN old \ {m} : new[o] = old[o]
                       /\ \E i \in 1..Len(old[m]) :
                            /\ old[m][i] = b
                            /\ \A j \in 1..(i - 1) : old[m][j] # b
                            /\ new[m] = WithoutIndex(old[m], i)
                       /\ out'[v] = << <<"print", BookTitle(b), "returned by", MemberName(m)>> >>
                  ELSE /\ new = old
                       /\ out'[v] = << <<"print", MemberName(m), "does not have", BookTitle(b)>> >>]_vars

\* C13 witness: a member who held a book twice among others returned it once
\* and still holds the later copy.
LedgerReturnedFirstCopy ==
  \E v \in Variants :
    /\ last.op = "return_book"
    /\ out[v] = << <<"print", BookTitle(last.book), "returned by", MemberName(last.member)>> >>
    /\ last.member \in DOMAIN loans[v]
    /\ Len(loans[v][last.member]) = 2
    /\ loans[v][last.member][1] # last.book
    /\ loans[v][last.member][2] = last.book

\* C14: Ledger loan_book(m, b) always succeeds: b is appended at the end of
\* m's sequence (an empty one is created when m has no entry), whoever holds
\* b already, and every other member's sequence is unchanged.
LedgerLoanContract ==
  [][\A v \in Variants :
       last'.op = "loan_book" =>
         LET m == last'.member
             b == last'.book
             old == loans[v]
             new == loans'[v]
         IN  /\ ~raised'[v]
             /\ DOMAIN new = DOMAIN old \cup {m}
             /\ new[m] = Append(IF m \in DOMAIN old THEN old[m] ELSE <<>>, b)
             /\ \A o \in DOMAIN old \ {m} : new[o] = old[o]
             /\ out'[v] = << <<"print", BookTitle(b), "loaned to", MemberName(m)>> >>]_vars

\* C14 witness: a book was loaned to a member although that member and
\* another one already held it.
LedgerLoanedHeldBook ==
  \E v \in Variants, o \in Members :
    /\ last.op = "loan_book"
    /\ o # last.member
    /\ Holds(v, o, last.book)
    /\ Count(loans[v][last.member], last.book) = 2

\* C15: after return_book_from_member(m, b) called while m's loan sequence
\* holds b, m's loan sequence no longer holds b.
ReturnClearsLoan ==
  [][\A v \in Variants :
       last'.op = "return" /\ Holds(v, last'.member, last'.book)
         => (~Holds(v, last.member, last.book))']_vars

\* C16: the inventory is an ordered sequence: add_book appends at the end
\* with no duplicate check, remove_book drops the first match only and keeps
\* the order of the rest, list_books gives one 'title by author' entry per
\* book in order.  So a book that is loaned and then returned comes back at
\* the end of the inventory.
InventoryIsOrderedSequence ==
  [][\A v \in Variants :
       LET b == last'.book
           old == inventory[v]
           new == inventory'[v]
       IN  /\ last'.op \in {"add", "return"} => new = Append(old, b) /\ ~raised'[v]
           /\ last'.op = "loan" /\ Contains(old, b) =>
                \E i \in 1..Len(old) :
                  /\ old[i] = b
                  /\ \A j \in 1..(i - 1) : old[j] # b
                  /\ new = WithoutIndex(old, i)
           /\ last'.op = "list" =>
                /\ new = old
                /\ Len(out'[v]) = Len(old)
                /\ \A i \in 1..Len(old) :
                     out'[v][i] = <<BookTitle(old[i]), "by", BookAuthor(old[i])>>]_vars

\* C16 witness: a book was loaned and then returned and now stands last in
\* the inventory, behind another book.
ReturnedBookAtEnd ==
  \E v \in Variants :
    /\ prev.op = "loan"
    /\ last.op = "return"
    /\ prev.book = last.book
    /\ prev.member = last.member
    /\ out[v][1] = <<"print", BookTitle(last.book), "returned by", MemberName(last.member)>>
    /\ Len(inventory[v]) >= 2
    /\ inventory[v][1] # last.book
    /\ inventory[v][Len(inventory[v])] = last.book

\* C17: for each book, the number of its occurrences in the inventory and in
\* all loan sequences together is unchanged by a loan (successful or not) and
\* by a return made while the member holds the book, grows by one on
\* add_book_to_inventory and on a return made while the member does not hold
\* the book, and never decreases.
Copies(inv, ln, b) ==
  Count(inv, b) +
  Cardinality(UNION {{<<m, i>> : i \in {j \in 1..Len(ln[m]) : ln[m][j] = b}} : m \in DOMAIN ln})

CopyConservation ==
  [][\A v \in Variants, b \in Books :
       LET before == Copies(inventory[v], loans[v], b)
           after == Copies(inventory'[v], loans'[v], b)
           held == Holds(v, last'.member, last'.book)
       IN  /\ after >= before
           /\ last'.op = "loan" => after = before
           /\ last'.op = "return" /\ held => after = before
           /\ last'.op = "return" /\ ~held =>
                after = IF b = last'.book THEN before + 1 ELSE before
           /\ last'.op = "add" =>
                after = IF b = last'.book THEN before + 1 ELSE before]_vars

\* C17 witness: a member returned a book they held, and it is now once in
\* the inventory and nowhere in the ledger.
HeldBookReturned ==
  \E v \in Variants :
    /\ last.op = "return"
    /\ out[v][1] = <<"print", BookTitle(last.book), "returned by", MemberName(last.member)>>
    /\ Copies(inventory[v], loans[v], last.book) = 1
    /\ Count(inventory[v], last.book) = 1

\* C18: when each book is added at most once and a member returns only a book
\* the ledger records for them, every added book is in exactly one place:
\* once in the inventory and in no loan sequence, or once in exactly one
\* member's loan sequence and not in the inventory.
HolderCount(v, b) == Cardinality({m \in DOMAIN loans[v] : Contains(loans[v][m], b)})

ExactlyOnePlace ==
  \A v \in Variants, b \in added :
    /\ Copies(inventory[v], loans[v], b) = 1
    /\ \/ Count(inventory[v], b) = 1 /\ HolderCount(v, b) = 0
       \/ Count(inventory[v], b) = 0 /\ HolderCount(v, b) = 1

\* C18 witness: after a return, one added book is on loan and another is in
\* the inventory.
OneOnLoanOneAvailable ==
  \E v \in Variants, a \in added, b \in added :
    /\ last.op = "return"
    /\ HolderCount(v, a) = 1
    /\ Count(inventory[v], a) = 0
    /\ Count(inventory[v], b) = 1
    /\ HolderCount(v, b) = 0

\* C19 as stated: for every member m, book b and ledger state, loan_book(m, b)
\* followed at once by return_book(m, b) gives m back exactly the sequence
\* they had (empty if they had no entry) and leaves the other members'
\* sequences unchanged.
RoundTrip(ln, m, b) == return_book(loan_book(ln, m, b).loans, m, b).loans

EntryOf(ln, m) == IF m \in DOMAIN ln THEN ln[m] ELSE <<>>

LedgerRoundTripExact ==
  \A v \in Variants, m \in Members, b \in Books :
    LET after == RoundTrip(loans[v], m, b)
    IN  /\ DOMAIN after = DOMAIN loans[v] \cup {m}
        /\ after[m] = EntryOf(loans[v], m)
        /\ \A o \in DOMAIN loans[v] \ {m} : after[o] = loans[v][o]

\* C19 amended: the round trip gives m back the same books, each the same
\* number of times, and leaves the other members' sequences unchanged; the
\* order is the same too when m did not hold b before, and otherwise the
\* earliest b is the one that left and the new b stands last.
LedgerRoundTripCounts ==
  \A v \in Variants, m \in Members, b \in Books :
    LET before == EntryOf(loans[v], m)
        after == RoundTrip(loans[v], m, b)
    IN  /\ DOMAIN after = DOMAIN loans[v] \cup {m}
        /\ \A o \in DOMAIN loans[v] \ {m} : after[o] = loans[v][o]
        /\ Len(after[m]) = Len(before)
        /\ \A x \in Books : Count(after[m], x) = Count(before, x)
        /\ ~Contains(before, b) => after[m] = before
        /\ Contains(before, b) =>
             \E i \in 1..Len(before) :
               /\ before[i] = b
               /\ \A j \in 1..(i - 1) : before[j] # b
               /\ after[m] = Append(WithoutIndex(before, i), b)

\* C19 witness: a member holding b and then another book loaned b again and
\* returned it at once; b now stands behind the other book.
RoundTripMovedBook ==
  \E v \in Variants :
    /\ prev.op = "loan_book"
    /\ last.op = "return_book"
    /\ prev.member = last.member
    /\ prev.book = last.book
    /\ last.member \in DOMAIN loans[v]
    /\ Len(loans[v][last.member]) = 2
    /\ loans[v][last.member][1] # last.book
    /\ loans[v][last.member][2] = last.book

====
